---- MODULE Spec2Model ----
(***************************************************************************)
(* Model of src/scraper.ts: collection of the search terms, concurrent     *)
(* retrieval per app store, per-store elimination of duplicates, the       *)
(* cross-store merge keyed by title, and the export of the merged apps.    *)
(*                                                                         *)
(* JavaScript values are represented as follows.  A string is a sequence   *)
(* of one-character strings where its characters matter (search terms,     *)
(* file content, typed input) and a TLA+ string where only equality        *)
(* matters (titles).  A property that may be undefined is None (<<>>) or   *)
(* Some(v) (<<v>>).  A Map is the sequence of its entries in insertion     *)
(* order.                                                                  *)
(***************************************************************************)
EXTENDS Integers, Sequences, FiniteSets, TLC

\* ------------------------------------------------------------------ bounds
MaxFile == 3        \* characters of input.txt
MaxTyped == 3       \* characters typed at the input prompt
MaxTerms == 2       \* search terms of a retrieval run
MaxFetched == 3     \* records the stores return in one retrieval run
MaxApps == 3        \* records in playStoreArray and appStoreArray together

\* ------------------------------------------------------- generic helpers
None == <<>>
Some(v) == <<v>>

Range(s) == {s[i] : i \in 1..Len(s)}

SeqsUpTo(S, n) == UNION {[1..k -> S] : k \in 0..n}

RECURSIVE Flat(_)
\* Array.prototype.flat() on an array of arrays
Flat(ss) == IF ss = <<>> THEN <<>> ELSE Head(ss) \o Flat(Tail(ss))

RECURSIVE Filter(_, _)
\* the elements of s that differ from x, in order
Filter(s, x) ==
  IF s = <<>> THEN <<>>
  ELSE IF Head(s) = x THEN Filter(Tail(s), x)
       ELSE <<Head(s)>> \o Filter(Tail(s), x)

\* ------------------------------------------------------ term collection
CR == "\r"
LF == "\n"
FF == "\f"
\* The characters \s matches in a JavaScript regular expression: the
\* WhiteSpace and LineTerminator code points.  A character that cannot be
\* written in a string here is denoted by the name of its code point.
UnicodeSpaces ==
  {"U+000B", "U+00A0", "U+1680", "U+2000", "U+2001", "U+2002", "U+2003", "U+2004",
   "U+2005", "U+2006", "U+2007", "U+2008", "U+2009", "U+200A", "U+2028", "U+2029",
   "U+202F", "U+205F", "U+3000", "U+FEFF"}
WhiteSpace == {" ", "\t", CR, LF, FF} \cup UnicodeSpaces

Platforms == {"win32", "darwin", "linux", "freebsd"}
FileChars == {"a", CR, LF}
TypedChars == {"a", ",", " ", FF}
\* input.txt: missing (None) or its content
FileInputs == {None} \cup {Some(c) : c \in SeqsUpTo(FileChars, MaxFile)}
TypedInputs == SeqsUpTo(TypedChars, MaxTyped)

\* the regular expression of the platform matches the literal sep at q
MatchLit(s, sep, q) ==
  /\ q + Len(sep) - 1 <= Len(s)
  /\ SubSeq(s, q, q + Len(sep) - 1) = sep

RECURSIVE SplitLit(_, _, _, _, _)
\* String.prototype.split with a regular expression matching exactly sep:
\* p is the start of the current piece, q the position tried next
SplitLit(s, sep, p, q, acc) ==
  IF q > Len(s) THEN Append(acc, SubSeq(s, p, Len(s)))
  ELSE IF MatchLit(s, sep, q)
       THEN SplitLit(s, sep, q + Len(sep), q + Len(sep),
                     Append(acc, SubSeq(s, p, q - 1)))
       ELSE SplitLit(s, sep, p, q + 1, acc)

RECURSIVE SkipWs(_, _)
\* the first position at or after q that holds no white space
SkipWs(s, q) ==
  IF q <= Len(s) /\ s[q] \in WhiteSpace THEN SkipWs(s, q + 1) ELSE q

\* /\s*,\s*/ matches at q: white space, a comma, white space
MatchComma(s, q) ==
  LET j == SkipWs(s, q) IN j <= Len(s) /\ s[j] = ","

MatchCommaEnd(s, q) == SkipWs(s, SkipWs(s, q) + 1)

RECURSIVE SplitComma(_, _, _, _)
\* answer.content.split(/\s*,\s*/)
SplitComma(s, p, q, acc) ==
  IF q > Len(s) THEN Append(acc, SubSeq(s, p, Len(s)))
  ELSE IF MatchComma(s, q)
       THEN SplitComma(s, MatchCommaEnd(s, q), MatchCommaEnd(s, q),
                       Append(acc, SubSeq(s, p, q - 1)))
       ELSE SplitComma(s, p, q + 1, acc)

\* readInput: the content of the file, or null when it cannot be read
readInput(file) == file

\* the separator readSearchTermsFromFile splits on, per process.platform
LineSeparator(platform) ==
  CASE platform = "win32" -> Some(<<CR, LF>>)
    [] platform = "darwin" -> Some(<<CR>>)
    [] platform = "linux" -> Some(<<LF>>)
    [] OTHER -> None

\* readSearchTermsFromFile: None stands for null
readSearchTermsFromFile(platform, file) ==
  LET input == readInput(file) IN
  IF input # None /\ input[1] # <<>>
  THEN IF LineSeparator(platform) = None THEN Some(<<>>)
       ELSE Some(SplitLit(input[1], LineSeparator(platform)[1], 1, 1, <<>>))
  ELSE None

\* the terms typed at the prompt, empty strings filtered out
inputTerms(content) == Filter(SplitComma(content, 1, 1, <<>>), <<>>)

\* lines 147-149: the terms pushed for input.txt
ImportedTerms(platform, file) ==
  LET importedTerms == readSearchTermsFromFile(platform, file) IN
  IF importedTerms # None THEN importedTerms[1] ELSE <<>>

\* the array `terms` handed to checkboxPrompt
CollectTerms(platform, file, content) ==
  ImportedTerms(platform, file) \o inputTerms(content)

RECURSIVE Selected(_, _, _)
\* the names of the choices left checked, in the order of the choices
Selected(choices, checked, i) ==
  IF i > Len(choices) THEN <<>>
  ELSE (IF i \in checked THEN <<choices[i]>> ELSE <<>>)
       \o Selected(choices, checked, i + 1)

\* ------------------------------------------------------------ retrieval
TermChars == {"a", "b"}
\* the search terms of the retrieval runs: one-character terms, repeated or
\* not; a run differs from the run with the two terms renamed only in the
\* stamps, so the first term is "a"
TermPool == {<<c>> : c \in TermChars}
TermSeqs == {st \in SeqsUpTo(TermPool, MaxTerms) : st = <<>> \/ st[1] = <<"a">>}

\* A record as a store returns it: its title (None when the property is
\* missing), whether it has the own property "summary", and data standing
\* for all its other fields.
RawApp(t, s, d) == [title |-> t, hasSummary |-> s, data |-> d]

\* what the stores return in the retrieval runs
GooglePool == {RawApp(Some(t), TRUE, 1) : t \in {"Foo", "Bar"}}
ApplePool == {RawApp(Some(t), FALSE, 1) : t \in {"Foo", "Bar"}}

\* scrape, line 50: append the used search-term as attribute
Stamp(app, searchTerm) ==
  [title |-> app.title, hasSummary |-> app.hasSummary, data |-> app.data,
   searchTerm |-> searchTerm]

\* scrape: the apps found, each stamped with the search term
scrape(found, searchTerm) == [i \in 1..Len(found) |-> Stamp(found[i], searchTerm)]

Pending == [state |-> "pending", value |-> <<>>]
Fulfilled(v) == [state |-> "fulfilled", value |-> v]
Rejected == [state |-> "rejected", value |-> <<>>]

AnyRejected(promises) == \E i \in 1..Len(promises) : promises[i].state = "rejected"
AllFulfilled(promises) == \A i \in 1..Len(promises) : promises[i].state = "fulfilled"

RECURSIVE CountApps(_)
\* the number of records in the fulfilled promises
CountApps(promises) ==
  IF promises = <<>> THEN 0 ELSE Len(Head(promises).value) + CountApps(Tail(promises))

\* Promise.all gone wrong: the values in the order the promises settled in
PromiseAllSettlingOrder(promises, order) ==
  [k \in 1..Len(order) |-> promises[order[k]].value]

\* Promise.all of fulfilled promises, settled in the order `order`: the
\* values in the order of the promises
PromiseAllValues(promises, order) == [i \in 1..Len(promises) |-> promises[i].value]

\* ----------------------------------------------------------- CombinedApp
NewCombinedApp ==
  [titleGoogle |-> None, titleApple |-> None, google |-> None, apple |-> None]

\* CombinedApp.addGoogleAppData: the Google fields and titleGoogle
addGoogleAppData(c, app) == [c EXCEPT !.titleGoogle = app.title, !.google = Some(app)]

\* CombinedApp.addAppleAppData: the Apple fields and titleApple
addAppleAppData(c, app) == [c EXCEPT !.titleApple = app.title, !.apple = Some(app)]

\* ------------------------------------------------------------------- Map
MapHas(m, k) == \E i \in 1..Len(m) : m[i].key = k
MapIndex(m, k) == CHOOSE i \in 1..Len(m) : m[i].key = k
MapGet(m, k) == m[MapIndex(m, k)].value
MapSet(m, k, v) ==
  IF MapHas(m, k) THEN [m EXCEPT ![MapIndex(m, k)].value = v]
  ELSE Append(m, [key |-> k, value |-> v])
MapSize(m) == Len(m)
MapValues(m) == [i \in 1..Len(m) |-> m[i].value]
MapKeys(m) == {m[i].key : i \in 1..Len(m)}

\* ------------------------------------------------------------------ core
\* the key gone wrong: a missing title keyed as the empty title
KeyOfMissingAsEmpty(app) == IF app.title = None THEN Some("") ELSE app.title

\* the key of the three maps: app.title
KeyOf(app) == app.title

\* isGoogleApp: the record has the own property "summary"
isGoogleApp(app) == app.hasSummary

\* the Google loop gone wrong: a title already in the map is skipped
DedupGoogleStepKeepFirst(m, app) ==
  IF MapHas(m, KeyOf(app)) THEN m
  ELSE MapSet(m, KeyOf(app), addGoogleAppData(NewCombinedApp, app))

\* one round of the loop over playStoreArray, lines 189-194
DedupGoogleStep(m, app) ==
  LET m1 == IF ~MapHas(m, KeyOf(app)) THEN MapSet(m, KeyOf(app), NewCombinedApp)
            ELSE m
      existingApp == MapGet(m1, KeyOf(app))
  IN MapSet(m1, KeyOf(app), addGoogleAppData(existingApp, app))

\* one round of the loop over appStoreArray, lines 196-201
DedupAppleStep(m, app) ==
  LET m1 == IF ~MapHas(m, KeyOf(app)) THEN MapSet(m, KeyOf(app), NewCombinedApp)
            ELSE m
      existingApp == MapGet(m1, KeyOf(app))
  IN MapSet(m1, KeyOf(app), addAppleAppData(existingApp, app))

RECURSIVE DedupGoogleLoop(_, _)
DedupGoogleLoop(arr, m) ==
  IF arr = <<>> THEN m ELSE DedupGoogleLoop(Tail(arr), DedupGoogleStep(m, Head(arr)))

RECURSIVE DedupAppleLoop(_, _)
DedupAppleLoop(arr, m) ==
  IF arr = <<>> THEN m ELSE DedupAppleLoop(Tail(arr), DedupAppleStep(m, Head(arr)))

\* the count the "Removed ... duplicates" line reports
RemovedDuplicates(arr, m) == Len(arr) - MapSize(m)

\* the merge loop gone wrong: it iterates playStoreArray alone
MergeInputGoogleOnly(google, apple) == google

\* the sequence the merge loop iterates, line 210
MergeInput(google, apple) == google \o apple

\* the merge loop gone wrong: a Google record replaces the Combined Record
MergeStepGoogleReplaces(m, app) ==
  IF isGoogleApp(app)
  THEN MapSet(m, KeyOf(app), addGoogleAppData(NewCombinedApp, app))
  ELSE LET m1 == IF ~MapHas(m, KeyOf(app)) THEN MapSet(m, KeyOf(app), NewCombinedApp)
                 ELSE m
       IN MapSet(m1, KeyOf(app), addAppleAppData(MapGet(m1, KeyOf(app)), app))

\* one round of the merge loop, lines 212-217
MergeStep(m, app) ==
  LET m1 == IF ~MapHas(m, KeyOf(app)) THEN MapSet(m, KeyOf(app), NewCombinedApp)
            ELSE m
      exisitingApp == MapGet(m1, KeyOf(app))
  IN MapSet(m1, KeyOf(app),
            IF isGoogleApp(app) THEN addGoogleAppData(exisitingApp, app)
            ELSE addAppleAppData(exisitingApp, app))

RECURSIVE MergeLoop(_, _)
\* the merge loop run over arr from the map m
MergeLoop(arr, m) ==
  IF arr = <<>> THEN m ELSE MergeLoop(Tail(arr), MergeStep(m, Head(arr)))

\* JavaScript truthiness of a title property: undefined and "" are falsy
Truthy(t) == t # None /\ t[1] # ""

\* line 220: the record with bothAppStores added
WithBothAppStores(app) ==
  [titleGoogle |-> app.titleGoogle, titleApple |-> app.titleApple,
   google |-> app.google, apple |-> app.apple,
   bothAppStores |-> (Truthy(app.titleApple) /\ Truthy(app.titleGoogle))]

\* line 220: appsAsArray
AppsAsArray(m) == [i \in 1..Len(m) |-> WithBothAppStores(MapValues(m)[i])]

\* ----------------------------------------------------------------- state
VARIABLES
  pc,                  \* where the main function stands
  terms,               \* the array terms
  searchTerms,         \* finalTerms.content
  googlePromises,      \* the promises of scrape(googlePlayStore, term), per term
  applePromises,       \* the promises of scrape(appleAppStore, term), per term
  googleOrder,         \* the indexes of the Google promises in settling order
  appleOrder,          \* the indexes of the Apple promises in settling order
  playStoreArray,
  appStoreArray,
  filteredGoogleApps,
  filteredAppleApps,
  removed,             \* the two counts of removed duplicates reported
  apps,
  mergeIdx,            \* the position of the merge loop in its input
  appsAsArray,
  exported             \* the rows handed to saveToCsv, None before the call

vars == <<pc, terms, searchTerms, googlePromises, applePromises, googleOrder,
          appleOrder, playStoreArray, appStoreArray, filteredGoogleApps,
          filteredAppleApps, removed, apps, mergeIdx, appsAsArray, exported>>

retrievalVars == <<googlePromises, applePromises, googleOrder, appleOrder,
                   playStoreArray, appStoreArray>>
coreVars == <<filteredGoogleApps, filteredAppleApps, removed, apps, mergeIdx,
              appsAsArray, exported>>

\* the state when the main function starts
Init ==
  /\ pc = "readFile"
  /\ terms = <<>>
  /\ searchTerms = <<>>
  /\ googlePromises = <<>>
  /\ applePromises = <<>>
  /\ googleOrder = <<>>
  /\ appleOrder = <<>>
  /\ playStoreArray = <<>>
  /\ appStoreArray = <<>>
  /\ filteredGoogleApps = <<>>
  /\ filteredAppleApps = <<>>
  /\ removed = None
  /\ apps = <<>>
  /\ mergeIdx = 1
  /\ appsAsArray = <<>>
  /\ exported = None

\* ---------------------------------------------------------------- actions
\* lines 145-149: the terms of input.txt
ReadSearchTermsFromFile ==
  /\ pc = "readFile"
  /\ \E platform \in Platforms, file \in FileInputs :
       terms' = terms \o ImportedTerms(platform, file)
  /\ pc' = "prompt"
  /\ UNCHANGED <<searchTerms, retrievalVars, coreVars>>

\* lines 152-156: the terms typed at the prompt
InputPrompt ==
  /\ pc = "prompt"
  /\ \E content \in TypedInputs : terms' = terms \o inputTerms(content)
  /\ pc' = "checkbox"
  /\ UNCHANGED <<searchTerms, retrievalVars, coreVars>>

\* lines 160-171: the selection, and the Google retrievals started
CheckboxPrompt ==
  /\ pc = "checkbox"
  /\ \E checked \in SUBSET (1..Len(terms)) :
       /\ searchTerms' = Selected(terms, checked, 1)
       /\ googlePromises' = [i \in 1..Len(searchTerms') |-> Pending]
  /\ pc' = "awaitGoogle"
  /\ UNCHANGED <<terms, applePromises, googleOrder, appleOrder, playStoreArray,
                 appStoreArray, coreVars>>

\* the records the stores may still return
Budget == MaxFetched - CountApps(googlePromises) - CountApps(applePromises)

\* scrape(googlePlayStore, searchTerms[i]) settles
ScrapeGoogleSettles ==
  /\ pc = "awaitGoogle"
  /\ \E i \in 1..Len(googlePromises) :
       /\ googlePromises[i].state = "pending"
       /\ \/ \E found \in SeqsUpTo(GooglePool, Budget) :
               googlePromises' =
                 [googlePromises EXCEPT ![i] = Fulfilled(scrape(found, searchTerms[i]))]
          \/ googlePromises' = [googlePromises EXCEPT ![i] = Rejected]
       /\ googleOrder' = Append(googleOrder, i)
  /\ UNCHANGED <<pc, terms, searchTerms, applePromises, appleOrder, playStoreArray,
                 appStoreArray, coreVars>>

\* lines 169-177: Promise.all settles; on a rejection catch yields undefined
\* and .flat() throws, otherwise the Apple retrievals are started
AwaitGoogle ==
  /\ pc = "awaitGoogle"
  /\ \/ /\ AnyRejected(googlePromises)
        /\ pc' = "crashed"
        /\ UNCHANGED <<playStoreArray, applePromises>>
     \/ /\ AllFulfilled(googlePromises)
        /\ playStoreArray' = Flat(PromiseAllValues(googlePromises, googleOrder))
        /\ applePromises' = [i \in 1..Len(searchTerms) |-> Pending]
        /\ pc' = "awaitApple"
  /\ UNCHANGED <<terms, searchTerms, googlePromises, googleOrder, appleOrder,
                 appStoreArray, coreVars>>

\* scrape(appleAppStore, searchTerms[i]) settles
ScrapeAppleSettles ==
  /\ pc = "awaitApple"
  /\ \E i \in 1..Len(applePromises) :
       /\ applePromises[i].state = "pending"
       /\ \/ \E found \in SeqsUpTo(ApplePool, Budget) :
               applePromises' =
                 [applePromises EXCEPT ![i] = Fulfilled(scrape(found, searchTerms[i]))]
          \/ applePromises' = [applePromises EXCEPT ![i] = Rejected]
       /\ appleOrder' = Append(appleOrder, i)
  /\ UNCHANGED <<pc, terms, searchTerms, googlePromises, googleOrder, playStoreArray,
                 appStoreArray, coreVars>>

\* lines 175-181
AwaitApple ==
  /\ pc = "awaitApple"
  /\ \/ /\ AnyRejected(applePromises)
        /\ pc' = "crashed"
        /\ UNCHANGED appStoreArray
     \/ /\ AllFulfilled(applePromises)
        /\ appStoreArray' = Flat(PromiseAllValues(applePromises, appleOrder))
        /\ pc' = "dedupGoogle"
  /\ UNCHANGED <<terms, searchTerms, googlePromises, applePromises, googleOrder,
                 appleOrder, playStoreArray, coreVars>>

\* lines 186-194
DedupGoogle ==
  /\ pc = "dedupGoogle"
  /\ filteredGoogleApps' = DedupGoogleLoop(playStoreArray, <<>>)
  /\ pc' = "dedupApple"
  /\ UNCHANGED <<terms, searchTerms, retrievalVars, filteredAppleApps, removed, apps,
                 mergeIdx, appsAsArray, exported>>

\* lines 196-201
DedupApple ==
  /\ pc = "dedupApple"
  /\ filteredAppleApps' = DedupAppleLoop(appStoreArray, <<>>)
  /\ pc' = "report"
  /\ UNCHANGED <<terms, searchTerms, retrievalVars, filteredGoogleApps, removed, apps,
                 mergeIdx, appsAsArray, exported>>

\* the report gone wrong: the Apple line counts with playStoreArray.length
ReportDuplicatesGoogleLength ==
  /\ pc = "report"
  /\ removed' = Some([google |-> RemovedDuplicates(playStoreArray, filteredGoogleApps),
                      apple |-> RemovedDuplicates(playStoreArray, filteredAppleApps)])
  /\ apps' = <<>>
  /\ mergeIdx' = 1
  /\ pc' = "merge"
  /\ UNCHANGED <<terms, searchTerms, retrievalVars, filteredGoogleApps,
                 filteredAppleApps, appsAsArray, exported>>

\* lines 203-208
ReportDuplicates ==
  /\ pc = "report"
  /\ removed' = Some([google |-> RemovedDuplicates(playStoreArray, filteredGoogleApps),
                      apple |-> RemovedDuplicates(appStoreArray, filteredAppleApps)])
  /\ apps' = <<>>
  /\ mergeIdx' = 1
  /\ pc' = "merge"
  /\ UNCHANGED <<terms, searchTerms, retrievalVars, filteredGoogleApps,
                 filteredAppleApps, appsAsArray, exported>>

\* lines 210-218, one record
Merge ==
  /\ pc = "merge"
  /\ mergeIdx <= Len(MergeInput(playStoreArray, appStoreArray))
  /\ apps' = MergeStep(apps, MergeInput(playStoreArray, appStoreArray)[mergeIdx])
  /\ mergeIdx' = mergeIdx + 1
  /\ UNCHANGED <<pc, terms, searchTerms, retrievalVars, filteredGoogleApps,
                 filteredAppleApps, removed, appsAsArray, exported>>

\* line 220
Finalize ==
  /\ pc = "merge"
  /\ mergeIdx > Len(MergeInput(playStoreArray, appStoreArray))
  /\ appsAsArray' = AppsAsArray(apps)
  /\ pc' = "save"
  /\ UNCHANGED <<terms, searchTerms, retrievalVars, filteredGoogleApps,
                 filteredAppleApps, removed, apps, mergeIdx, exported>>

\* line 223
SaveToCsv ==
  /\ pc = "save"
  /\ exported' = Some(appsAsArray)
  /\ pc' = "done"
  /\ UNCHANGED <<terms, searchTerms, retrievalVars, filteredGoogleApps,
                 filteredAppleApps, removed, apps, mergeIdx, appsAsArray>>

NextTerms == ReadSearchTermsFromFile \/ InputPrompt \/ CheckboxPrompt

NextRetrieval == ScrapeGoogleSettles \/ AwaitGoogle \/ ScrapeAppleSettles \/ AwaitApple

NextCore == DedupGoogle \/ DedupApple \/ ReportDuplicates \/ Merge \/ Finalize \/ SaveToCsv

\* the collection of the search terms, up to the start of the retrieval
SpecTerms == Init /\ [][NextTerms]_vars

\* the state after the selection of the search terms st
AfterSelection(st) ==
  /\ pc = "awaitGoogle"
  /\ terms = st
  /\ searchTerms = st
  /\ googlePromises = [i \in 1..Len(st) |-> Pending]
  /\ applePromises = <<>>
  /\ googleOrder = <<>>
  /\ appleOrder = <<>>
  /\ playStoreArray = <<>>
  /\ appStoreArray = <<>>
  /\ filteredGoogleApps = <<>>
  /\ filteredAppleApps = <<>>
  /\ removed = None
  /\ apps = <<>>
  /\ mergeIdx = 1
  /\ appsAsArray = <<>>
  /\ exported = None

InitScrape == \E st \in TermSeqs : AfterSelection(st)

\* a run from the selected search terms to the export
SpecScrape == InitScrape /\ [][NextRetrieval \/ NextCore]_vars

\* the records of the core runs: titles missing, empty and plain; with and
\* without "summary"; two values of the other fields
CoreTitles == {None, Some(""), Some("Foo"), Some("Bar")}
CoreApps ==
  {Stamp(RawApp(t, s, d), <<"a">>) : t \in CoreTitles, s \in BOOLEAN, d \in 1..2}

\* the state after the retrieval for the one search term "a" gave google
\* and apple
AfterRetrieval(google, apple) ==
  /\ pc = "dedupGoogle"
  /\ terms = << <<"a">> >>
  /\ searchTerms = << <<"a">> >>
  /\ googlePromises = <<Fulfilled(google)>>
  /\ applePromises = <<Fulfilled(apple)>>
  /\ googleOrder = <<1>>
  /\ appleOrder = <<1>>
  /\ playStoreArray = google
  /\ appStoreArray = apple
  /\ filteredGoogleApps = <<>>
  /\ filteredAppleApps = <<>>
  /\ removed = None
  /\ apps = <<>>
  /\ mergeIdx = 1
  /\ appsAsArray = <<>>
  /\ exported = None

InitCore ==
  \E google \in SeqsUpTo(CoreApps, MaxApps) :
    \E apple \in SeqsUpTo(CoreApps, MaxApps - Len(google)) :
      AfterRetrieval(google, apple)

\* the core on the arrays of a retrieval
SpecCore == InitCore /\ [][NextCore]_vars

Next == NextTerms \/ NextRetrieval \/ NextCore

\* the whole run
Spec == Init /\ [][Next]_vars

\* ---------------------------------------------------------------- claims
TitlesOf(arr) == {arr[i].title : i \in 1..Len(arr)}

\* the last record of arr with the title t
LastWith(arr, t) ==
  arr[CHOOSE i \in 1..Len(arr) :
        arr[i].title = t /\ \A j \in (i + 1)..Len(arr) : arr[j].title # t]

EntriesWith(m, t) == {i \in 1..Len(m) : m[i].key = t}

NoDupKeys(m) == \A i, j \in 1..Len(m) : m[i].key = m[j].key => i = j

NoDup(s) == \A i, j \in 1..Len(s) : s[i] = s[j] => i = j

Merged == pc \in {"save", "done"}

Raw == playStoreArray \o appStoreArray

\* C1: every exported Combined Record has bothAppStores true iff both
\* titleGoogle and titleApple are present on it, the empty title included.
C1_BothAppStoresIffBothTitles ==
  exported # None =>
    \A i \in 1..Len(exported[1]) :
      exported[1][i].bothAppStores
        <=> (exported[1][i].titleGoogle # None /\ exported[1][i].titleApple # None)

\* the records of the promises that were fulfilled, in the order of the terms
Retrieved(promises) ==
  Flat([i \in 1..Len(promises) |->
          IF promises[i].state = "fulfilled" THEN promises[i].value ELSE <<>>])

\* C2: when the retrieval of a (source, term) pair fails, the run is not
\* aborted: it ends with the records of the other pairs merged and handed
\* to saveToCsv.
C2_FailedRetrievalIsolated ==
  (AnyRejected(googlePromises) \/ AnyRejected(applePromises)) /\ pc \in {"crashed", "done"}
    => /\ pc = "done"
       /\ exported =
            Some(AppsAsArray(MergeLoop(Retrieved(googlePromises)
                                       \o Retrieved(applePromises), <<>>)))

\* C3: the merge map never holds two Combined Records for one title; during
\* the merge pass it holds the titles of the records processed so far, and at
\* its end one Combined Record, exported once, for each title of the two
\* raw streams.
C3_OneRecordPerTitle ==
  /\ NoDupKeys(apps)
  /\ pc = "merge" => MapKeys(apps) = TitlesOf(SubSeq(Raw, 1, mergeIdx - 1))
  /\ Merged =>
       /\ MapKeys(apps) = TitlesOf(Raw)
       /\ Len(appsAsArray) = Cardinality(TitlesOf(Raw))
       /\ \A t \in TitlesOf(Raw) : Cardinality(EntriesWith(apps, t)) = 1

C3_Witness ==
  /\ pc = "done"
  /\ Len(exported[1]) = 2
  /\ Len(playStoreArray) = 2
  /\ Len(appStoreArray) = 1
  /\ appStoreArray[1].title \in TitlesOf(playStoreArray)

\* the Combined Record the deduplication of one store leaves for a title
OnlyGoogle(app) ==
  [titleGoogle |-> app.title, titleApple |-> None, google |-> Some(app), apple |-> None]
OnlyApple(app) ==
  [titleGoogle |-> None, titleApple |-> app.title, google |-> None, apple |-> Some(app)]

\* C4: the deduplication of a store leaves exactly one Combined Record per
\* title of its records, holding the fields of the last record with that title.
C4_LastWriteWins ==
  /\ pc \notin {"dedupGoogle"} =>
       /\ MapKeys(filteredGoogleApps) = TitlesOf(playStoreArray)
       /\ \A t \in TitlesOf(playStoreArray) :
            /\ Cardinality(EntriesWith(filteredGoogleApps, t)) = 1
            /\ MapGet(filteredGoogleApps, t) = OnlyGoogle(LastWith(playStoreArray, t))
  /\ pc \notin {"dedupGoogle", "dedupApple"} =>
       /\ MapKeys(filteredAppleApps) = TitlesOf(appStoreArray)
       /\ \A t \in TitlesOf(appStoreArray) :
            /\ Cardinality(EntriesWith(filteredAppleApps, t)) = 1
            /\ MapGet(filteredAppleApps, t) = OnlyApple(LastWith(appStoreArray, t))

C4_Witness ==
  /\ pc = "report"
  /\ Len(playStoreArray) = 3
  /\ playStoreArray[1].title = playStoreArray[3].title
  /\ playStoreArray[1].title # playStoreArray[2].title
  /\ playStoreArray[1] # playStoreArray[3]
  /\ MapSize(filteredGoogleApps) = 2

TitlesDistinct(arr) == \A i, j \in 1..Len(arr) : arr[i].title = arr[j].title => i = j

\* C5: the reported number of removed duplicates is the length of the input
\* minus the number of its distinct titles, never negative, and 0 when the
\* titles are pairwise distinct, the output then being as long as the input.
C5_RemovedDuplicates ==
  removed # None =>
    /\ removed[1].google = Len(playStoreArray) - Cardinality(TitlesOf(playStoreArray))
    /\ removed[1].apple = Len(appStoreArray) - Cardinality(TitlesOf(appStoreArray))
    /\ removed[1].google >= 0
    /\ removed[1].apple >= 0
    /\ TitlesDistinct(playStoreArray) =>
         removed[1].google = 0 /\ MapSize(filteredGoogleApps) = Len(playStoreArray)
    /\ TitlesDistinct(appStoreArray) =>
         removed[1].apple = 0 /\ MapSize(filteredAppleApps) = Len(appStoreArray)

C5_Witness ==
  /\ removed # None
  /\ Len(playStoreArray) = 2
  /\ TitlesDistinct(playStoreArray)
  /\ removed[1].google = 0
  /\ Len(appStoreArray) = 1
  /\ removed[1].apple = 0

\* the title and the bothAppStores flag of every Combined Record of a map
Flags(m) == {<<m[i].key, WithBothAppStores(m[i].value).bothAppStores>> : i \in 1..Len(m)}

\* C6: folding the Google records and then the Apple records gives the same
\* titles, each with the same bothAppStores flag, as folding the Apple
\* records and then the Google records.
C6_ProvenanceCommutes ==
  Merged =>
    /\ {<<apps[i].key, appsAsArray[i].bothAppStores>> : i \in 1..Len(apps)}
         = Flags(MergeLoop(appStoreArray \o playStoreArray, <<>>))
    /\ Len(appsAsArray) = Len(apps)

C6_Witness ==
  /\ pc = "done"
  /\ Len(playStoreArray) = 2
  /\ Len(appStoreArray) = 1
  /\ \E i \in 1..Len(appsAsArray) : appsAsArray[i].bothAppStores
  /\ \E i \in 1..Len(appsAsArray) : ~appsAsArray[i].bothAppStores
  /\ MapValues(MergeLoop(appStoreArray \o playStoreArray, <<>>)) # MapValues(apps)

\* the Combined Records of a map that hold the records without a title or
\* with the empty title
DegenerateEntries(m) == EntriesWith(m, None) \cup EntriesWith(m, Some(""))

\* C7 as stated: records without a title and records with the empty title
\* collapse into one Combined Record.
C7_MissingTitleIsEmptyTitle ==
  /\ pc \notin {"dedupGoogle"} => Cardinality(DegenerateEntries(filteredGoogleApps)) <= 1
  /\ pc \notin {"dedupGoogle", "dedupApple"} =>
       Cardinality(DegenerateEntries(filteredAppleApps)) <= 1
  /\ Merged => Cardinality(DegenerateEntries(apps)) <= 1

\* C7 amended: a record without a title is kept, under the missing title as
\* a key of its own: the records without a title collapse into one Combined
\* Record, apart from the one of the records with the empty title.
C7_MissingTitleOwnIdentity ==
  /\ pc \notin {"dedupGoogle"} =>
       /\ None \in TitlesOf(playStoreArray) =>
            Cardinality(EntriesWith(filteredGoogleApps, None)) = 1
       /\ Some("") \in TitlesOf(playStoreArray) =>
            Cardinality(EntriesWith(filteredGoogleApps, Some(""))) = 1
  /\ pc \notin {"dedupGoogle", "dedupApple"} =>
       /\ None \in TitlesOf(appStoreArray) =>
            Cardinality(EntriesWith(filteredAppleApps, None)) = 1
       /\ Some("") \in TitlesOf(appStoreArray) =>
            Cardinality(EntriesWith(filteredAppleApps, Some(""))) = 1
  /\ Merged =>
       /\ None \in TitlesOf(Raw) => Cardinality(EntriesWith(apps, None)) = 1
       /\ Some("") \in TitlesOf(Raw) => Cardinality(EntriesWith(apps, Some(""))) = 1
       /\ pc = "done" => Len(exported[1]) = Cardinality(TitlesOf(Raw))

C7_Witness ==
  /\ pc = "done"
  /\ None \in TitlesOf(playStoreArray)
  /\ Some("") \in TitlesOf(playStoreArray)
  /\ None \in TitlesOf(appStoreArray)
  /\ Len(exported[1]) = 2

\* C8: the terms offered by checkboxPrompt, and the search terms selected
\* from them, hold no empty term and no term twice.
C8_TermsDeduplicatedNonEmpty ==
  pc \in {"checkbox", "awaitGoogle"} =>
    /\ <<>> \notin Range(terms)
    /\ NoDup(terms)
    /\ <<>> \notin Range(searchTerms)
    /\ NoDup(searchTerms)

\* the records of the promises in the order of the search terms
InTermOrder(promises) == Flat([i \in 1..Len(promises) |-> promises[i].value])

SideGoogle(m, t) == m[CHOOSE i \in EntriesWith(m, t) : TRUE].value.google
SideApple(m, t) == m[CHOOSE i \in EntriesWith(m, t) : TRUE].value.apple

\* C9: in whatever order the scrape promises settle, each array lists the
\* records in the order of the search terms and then of the results, the
\* merge processes the Google records before the Apple records, and the
\* merged record of a title holds, per store, the last record with that
\* title in that order.
C9_FixedOrder ==
  /\ pc \notin {"awaitGoogle", "crashed"} =>
       /\ playStoreArray = InTermOrder(googlePromises)
       /\ \A i \in 1..Len(googlePromises) : \A k \in 1..Len(googlePromises[i].value) :
            googlePromises[i].value[k].searchTerm = searchTerms[i]
  /\ pc \notin {"awaitGoogle", "awaitApple", "crashed"} =>
       /\ appStoreArray = InTermOrder(applePromises)
       /\ \A i \in 1..Len(applePromises) : \A k \in 1..Len(applePromises[i].value) :
            applePromises[i].value[k].searchTerm = searchTerms[i]
  /\ pc = "merge" /\ mergeIdx <= Len(playStoreArray) + 1 =>
       \A i \in 1..Len(apps) : apps[i].value.apple = None
  /\ Merged =>
       /\ \A t \in TitlesOf(InTermOrder(googlePromises)) :
            SideGoogle(apps, t) = Some(LastWith(InTermOrder(googlePromises), t))
       /\ \A t \in TitlesOf(InTermOrder(applePromises)) :
            SideApple(apps, t) = Some(LastWith(InTermOrder(applePromises), t))

C9_Witness ==
  /\ pc = "done"
  /\ googleOrder = <<2, 1>>
  /\ appleOrder = <<1, 2>>
  /\ searchTerms[1] # searchTerms[2]
  /\ Len(googlePromises[1].value) = 1
  /\ Len(googlePromises[2].value) = 1
  /\ googlePromises[1].value[1].title = googlePromises[2].value[1].title
  /\ Len(applePromises[2].value) = 1

\* C10: for every title, the Google side and the Apple side of the merged
\* Combined Record are those of the per-store deduplication, and a side is
\* absent exactly when that store's map has no entry for the title.
C10_MergeEqualsDedup ==
  Merged =>
    \A t \in MapKeys(apps) \cup MapKeys(filteredGoogleApps) \cup MapKeys(filteredAppleApps) :
      /\ MapHas(apps, t)
      /\ IF MapHas(filteredGoogleApps, t)
         THEN /\ MapGet(apps, t).titleGoogle = MapGet(filteredGoogleApps, t).titleGoogle
              /\ MapGet(apps, t).google = MapGet(filteredGoogleApps, t).google
         ELSE MapGet(apps, t).titleGoogle = None /\ MapGet(apps, t).google = None
      /\ IF MapHas(filteredAppleApps, t)
         THEN /\ MapGet(apps, t).titleApple = MapGet(filteredAppleApps, t).titleApple
              /\ MapGet(apps, t).apple = MapGet(filteredAppleApps, t).apple
         ELSE MapGet(apps, t).titleApple = None /\ MapGet(apps, t).apple = None

====
